---- MODULE Spec2Model ----
(***************************************************************************)
(* The Menu -> SubMenu -> Dish catalog service: the three tables of        *)
(* menu/models.py, the data-access functions of menu/crud.py and the       *)
(* route handlers of menu/routers.py.                                      *)
(*                                                                         *)
(* A UUID value is a number of Uuids.  A path identifier is the text the   *)
(* client wrote in the URL: <<"canon", u>> is the canonical lower-case     *)
(* hyphenated text of u, <<"upper", u>> the same UUID written in upper     *)
(* case, <<"junk", 0>> a text that is no UUID at all ("11111").  Ids given *)
(* in a request body are parsed by the schema into UUID values, 0 standing *)
(* for a field that is not set.                                            *)
(***************************************************************************)
EXTENDS Integers, FiniteSets, Sequences, Bags, TLC

VARIABLES menus, submenus, dishes, inflight, resp

vars == <<menus, submenus, dishes, inflight, resp>>

\* ------------------------------------------------------------------ bounds
NumIds == 2
NumTitles == 2
MaxInFlight == 1

Uuids == 1..NumIds
Titles == 1..NumTitles
Descriptions == {"about"}
\* prices as sent by the client, in thousandths
PriceInputs == {7777}
Unset == 0

Junk == <<"junk", 0>>
PathIds == {<<"canon", u>> : u \in Uuids} \cup {<<"upper", 1>>, Junk}

\* ------------------------------------------------------- Identity Validator
ValueError == 0

\* uuid.UUID(text, version=4): the value the text denotes, whatever its case
UUID(text) == IF text[1] = "junk" THEN ValueError ELSE text[2]

\* str(uuid_obj): always the canonical text
str(u) == <<"canon", u>>

\* without the comparison of the text with str(uuid_obj)
is_valid_uuid_parse_only(uuid_to_test) == UUID(uuid_to_test) # ValueError

\* a validator that accepts every text
is_valid_uuid_accepts_all(uuid_to_test) == TRUE

is_valid_uuid(uuid_to_test) ==
    IF UUID(uuid_to_test) = ValueError
    THEN FALSE
    ELSE str(UUID(uuid_to_test)) = uuid_to_test

\* the store's own cast of a text to the uuid column type
DataError == 0
pg_uuid(text) == IF text[1] = "junk" THEN DataError ELSE text[2]

\* ------------------------------------------------------------------ tables
db == [menus |-> menus, submenus |-> submenus, dishes |-> dishes]

\* a column that drops the digits it cannot hold
Numeric_10_2_truncated(p) == p \div 10

\* Numeric(10, 2): a price in thousandths stored in hundredths, half up
Numeric_10_2(p) == (p + 5) \div 10

MenuRow(i, t, d) == [id |-> i, title |-> t, description |-> d]
SubMenuRow(i, t, d, m) == [id |-> i, title |-> t, description |-> d, menu_id |-> m]
DishRow(i, t, d, p, s) ==
    [id |-> i, title |-> t, description |-> d, price |-> p, submenu_id |-> s]

\* -------------------------------------------------- Aggregation Query Layer
\* the subquery without its correlation to the enclosing submenu
dishes_subquery_uncorrelated(D, sid) == Cardinality(D.dishes)

\* the scalar subquery: count(dishes.id) where submenus.id = dishes.submenu_id
dishes_subquery(D, sid) == Cardinality({d \in D.dishes : d.submenu_id = sid})

SubMenuProjection(D, s) ==
    [id |-> s.id, title |-> s.title, description |-> s.description,
     dishes_count |-> dishes_subquery(D, s.id)]

get_submenus(D, menu_id) ==
    {SubMenuProjection(D, s) : s \in {x \in D.submenus : x.menu_id = menu_id}}

get_submenu_by_id(D, menu_id, submenu_id) ==
    {SubMenuProjection(D, s) :
        s \in {x \in D.submenus : x.menu_id = menu_id /\ x.id = submenu_id}}

\* menus LEFT OUTER JOIN submenus GROUP BY menus.id, menus.title,
\* menus.description, dishes_count: one group per menu and per value of the
\* subquery among its submenus; a menu without submenus joins one NULL row,
\* for which count(submenus.id) is 0 and the subquery counts no dish.
MenuGroups(D, m) ==
    LET subs == {s \in D.submenus : s.menu_id = m.id}
        proj(sc, dc) == [id |-> m.id, title |-> m.title,
                         description |-> m.description,
                         submenus_count |-> sc, dishes_count |-> dc]
    IN  IF subs = {}
        THEN {proj(0, 0)}
        ELSE {proj(Cardinality({s \in subs : dishes_subquery(D, s.id) = dc}), dc) :
                 dc \in {dishes_subquery(D, s.id) : s \in subs}}

get_menus(D) == UNION {MenuGroups(D, m) : m \in D.menus}

\* the rows of the query of get_menu_by_id; .first() takes any one of them
get_menu_by_id(D, menu_id) ==
    UNION {MenuGroups(D, m) : m \in {x \in D.menus : x.id = menu_id}}

get_menu_by_title(D, title) == {m \in D.menus : m.title = title}

get_submenu_by_title(D, title) == {s \in D.submenus : s.title = title}

get_dishes(D, submenu_id, menu_id) ==
    {d \in D.dishes : d.submenu_id = submenu_id
        /\ \E s \in D.submenus : s.id = submenu_id /\ s.menu_id = menu_id
              /\ \E m \in D.menus : m.id = menu_id}

get_dish_by_id(D, submenu_id, menu_id, dish_id) ==
    {d \in get_dishes(D, submenu_id, menu_id) : d.id = dish_id}

DishProjection(d) ==
    [id |-> d.id, title |-> d.title, description |-> d.description, price |-> d.price]

\* ------------------------------------------------------------ the outcomes
\* What a handler does: the response (status code, detail of the error, the
\* rows of the body) and the tables it leaves.  An exception nobody catches
\* is the server's 500 with the exception's name as detail.
Outcome(status, detail, body, D) ==
    [status |-> status, detail |-> detail, body |-> body, db |-> D]

HTTPException(status_code, detail, D) == Outcome(status_code, detail, {}, D)

Uncaught(exception, D) == Outcome(500, exception, {}, D)

\* a handler returning what .first() gave to its response_model: any one row
\* of the query, and a response that fails validation when there is none
Respond(status_code, rows, D) ==
    IF rows = {}
    THEN {Uncaught("ResponseValidationError", D)}
    ELSE {Outcome(status_code, "", {r}, D) : r \in rows}

\* ------------------------------------------------------------ Storage Schema
\* an id column that is always generated
NewIds_always_generated(table, id) == Uuids \ {r.id : r \in table}

\* Column(UUID, primary_key=True, default=uuid.uuid4): the id given, or a
\* fresh one
NewIds(table, id) == IF id = Unset THEN Uuids \ {r.id : r \in table} ELSE {id}

\* primary_key=True
PrimaryKeyTaken(table, id) == \E r \in table : r.id = id

\* a title column without unique=True
TitleTaken_not_unique(table, title) == FALSE

\* Column(String, unique=True)
TitleTaken(table, title) == \E r \in table : r.title = title

\* a parent column without its foreign key
ForeignKeyMissing_not_enforced(parents, id) == FALSE

\* ForeignKey("menus.id"), ForeignKey("submenus.id")
ForeignKeyMissing(parents, id) == ~ \E r \in parents : r.id = id

\* a delete of a menu that cascades to its submenus and not to their dishes
CascadeMenu_one_level(D, menu_id) ==
    [menus |-> {m \in D.menus : m.id # menu_id},
     submenus |-> {s \in D.submenus : s.menu_id # menu_id},
     dishes |-> D.dishes]

\* ondelete="CASCADE": the rows that go with a deleted menu or submenu
CascadeMenu(D, menu_id) ==
    LET gone == {s.id : s \in {x \in D.submenus : x.menu_id = menu_id}}
    IN  [menus |-> {m \in D.menus : m.id # menu_id},
         submenus |-> {s \in D.submenus : s.menu_id # menu_id},
         dishes |-> {d \in D.dishes : d.submenu_id \notin gone}]

CascadeSubMenu(D, submenu_id) ==
    [menus |-> D.menus,
     submenus |-> {s \in D.submenus : s.id # submenu_id},
     dishes |-> {d \in D.dishes : d.submenu_id # submenu_id}]

\* ------------------------------------------------- Record Operations Layer
\* the store rejects a query that compares a uuid column with a text that is
\* no UUID
\* raise_if_not_exist(item, message): whether it raises
raise_if_not_exist(item) == item = {}

BadCast(path) == \E text \in path : pg_uuid(text) = DataError

\* a lookup without its filter on the id
check_menu_by_id_any(D, menu_id) == D.menus

check_menu_by_id(D, menu_id) == {m \in D.menus : m.id = pg_uuid(menu_id)}

check_submenu_by_id(D, submenu_id) == {s \in D.submenus : s.id = pg_uuid(submenu_id)}

\* the id written whether or not the payload carries one
SetId_from_payload(row, payload) == payload.id

\* setattr(row, "id", value) for the keys of model_dump(exclude_unset=True)
SetId(row, payload) == IF payload.id = Unset THEN row.id ELSE payload.id

\* ---- create
create_menu(D, menu) ==
    IF TitleTaken(D.menus, menu.title)
    THEN {Uncaught("IntegrityError", D)}
    ELSE UNION {
        IF PrimaryKeyTaken(D.menus, i)
        THEN {Uncaught("IntegrityError", D)}
        ELSE LET D2 == [D EXCEPT !.menus = @ \cup
                            {MenuRow(i, menu.title, menu.description)}]
             IN  Respond(201, get_menu_by_id(D2, i), D2)
        : i \in NewIds(D.menus, menu.id)}

create_submenu(D, menu_id, submenu) ==
    IF ~ is_valid_uuid(menu_id)
    THEN {HTTPException(422, "Wrong id type", D)}
    ELSE IF TitleTaken(D.submenus, submenu.title)
            \/ ForeignKeyMissing(D.menus, pg_uuid(menu_id))
    THEN {Uncaught("IntegrityError", D)}
    ELSE UNION {
        IF PrimaryKeyTaken(D.submenus, i)
        THEN {Uncaught("IntegrityError", D)}
        ELSE LET D2 == [D EXCEPT !.submenus = @ \cup
                            {SubMenuRow(i, submenu.title, submenu.description,
                                        pg_uuid(menu_id))}]
             IN  Respond(201, get_submenu_by_id(D2, pg_uuid(menu_id), i), D2)
        : i \in NewIds(D.submenus, submenu.id)}

create_dish(D, menu_id, submenu_id, dish) ==
    IF ~ (is_valid_uuid(menu_id) /\ is_valid_uuid(submenu_id))
    THEN {HTTPException(422, "Wrong id type", D)}
    ELSE IF TitleTaken(D.dishes, dish.title)
            \/ ForeignKeyMissing(D.submenus, pg_uuid(submenu_id))
    THEN {HTTPException(500, "A duplicate record already exists", D)}
    ELSE UNION {
        IF PrimaryKeyTaken(D.dishes, i)
        THEN {HTTPException(500, "A duplicate record already exists", D)}
        ELSE LET D2 == [D EXCEPT !.dishes = @ \cup
                            {DishRow(i, dish.title, dish.description,
                                     Numeric_10_2(dish.price), pg_uuid(submenu_id))}]
                 rows == get_dish_by_id(D2, pg_uuid(submenu_id), pg_uuid(menu_id), i)
             IN  Respond(201, {DishProjection(d) : d \in rows}, D2)
        : i \in NewIds(D.dishes, dish.id)}

\* the route handlers up to their call of crud.create_*: the outcomes that end
\* the request there, none when the request goes on to the insert
precheck_create_menu(D, menu) ==
    IF get_menu_by_title(D, menu.title) # {}
    THEN {HTTPException(400, "Title of Menu already registered", D)}
    ELSE {}

\* the handler without its lookup by title
precheck_create_submenu_no_title(D, menu_id, submenu) ==
    IF ~ is_valid_uuid(menu_id)
    THEN {HTTPException(422, "Wrong id type", D)}
    ELSE IF check_menu_by_id(D, menu_id) = {}
    THEN {HTTPException(400, "ID of Menu not registered", D)}
    ELSE {}

precheck_create_submenu(D, menu_id, submenu) ==
    IF ~ is_valid_uuid(menu_id)
    THEN {HTTPException(422, "Wrong id type", D)}
    ELSE IF check_menu_by_id(D, menu_id) = {}
    THEN {HTTPException(400, "ID of Menu not registered", D)}
    ELSE IF get_submenu_by_title(D, submenu.title) # {}
    THEN {HTTPException(400, "Title of Submenu already registered", D)}
    ELSE {}

precheck_create_dish(D, menu_id, submenu_id, dish) ==
    IF ~ is_valid_uuid(menu_id)
    THEN {HTTPException(422, "Wrong id type", D)}
    ELSE IF check_menu_by_id(D, menu_id) = {}
    THEN {HTTPException(400, "ID of Menu not registered", D)}
    ELSE IF ~ is_valid_uuid(submenu_id)
    THEN {HTTPException(422, "Wrong id type", D)}
    ELSE IF check_submenu_by_id(D, submenu_id) = {}
    THEN {HTTPException(400, "ID of Submenu not registered", D)}
    ELSE {}

\* a create request served with no other request in between
route_create_menu(D, menu) ==
    IF precheck_create_menu(D, menu) # {}
    THEN precheck_create_menu(D, menu)
    ELSE create_menu(D, menu)

route_create_submenu(D, menu_id, submenu) ==
    IF precheck_create_submenu(D, menu_id, submenu) # {}
    THEN precheck_create_submenu(D, menu_id, submenu)
    ELSE create_submenu(D, menu_id, submenu)

route_create_dish(D, menu_id, submenu_id, dish) ==
    IF precheck_create_dish(D, menu_id, submenu_id, dish) # {}
    THEN precheck_create_dish(D, menu_id, submenu_id, dish)
    ELSE create_dish(D, menu_id, submenu_id, dish)

\* ---- read
route_get_menus(D) == {Outcome(200, "", get_menus(D), D)}

route_get_menu_by_id(D, menu_id) ==
    IF BadCast({menu_id})
    THEN {Uncaught("DataError", D)}
    ELSE LET rows == get_menu_by_id(D, pg_uuid(menu_id))
         IN  IF rows = {}
             THEN {HTTPException(404, "menu not found", D)}
             ELSE {Outcome(200, "", {r}, D) : r \in rows}

route_get_submenus(D, menu_id) ==
    IF BadCast({menu_id})
    THEN {Uncaught("DataError", D)}
    ELSE {Outcome(200, "", get_submenus(D, pg_uuid(menu_id)), D)}

route_get_submenu_by_id(D, menu_id, submenu_id) ==
    IF BadCast({menu_id, submenu_id})
    THEN {Uncaught("DataError", D)}
    ELSE LET rows == get_submenu_by_id(D, pg_uuid(menu_id), pg_uuid(submenu_id))
         IN  IF rows = {}
             THEN {HTTPException(404, "submenu not found", D)}
             ELSE {Outcome(200, "", {r}, D) : r \in rows}

route_get_dishes(D, menu_id, submenu_id) ==
    IF BadCast({menu_id, submenu_id})
    THEN {Uncaught("DataError", D)}
    ELSE {Outcome(200, "",
            {DishProjection(d) :
                d \in get_dishes(D, pg_uuid(submenu_id), pg_uuid(menu_id))}, D)}

route_get_dish_by_id(D, menu_id, submenu_id, dish_id) ==
    IF BadCast({menu_id, submenu_id, dish_id})
    THEN {Uncaught("DataError", D)}
    ELSE LET rows == get_dish_by_id(D, pg_uuid(submenu_id), pg_uuid(menu_id),
                                    pg_uuid(dish_id))
         IN  IF rows = {}
             THEN {HTTPException(404, "dish not found", D)}
             ELSE {Outcome(200, "", {DishProjection(d)}, D) : d \in rows}

\* ---- delete
Deleted(message, D) == Outcome(200, message, {}, D)

delete_menu_by_id(D, menu_id) ==
    IF ~ is_valid_uuid(menu_id)
    THEN {HTTPException(422, "Wrong id type", D)}
    ELSE IF raise_if_not_exist(check_menu_by_id(D, menu_id))
    THEN {HTTPException(404, "Menu not found", D)}
    ELSE {Deleted("The menu has been deleted", CascadeMenu(D, pg_uuid(menu_id)))}

delete_submenu_by_id(D, menu_id, submenu_id) ==
    IF ~ (is_valid_uuid(menu_id) /\ is_valid_uuid(submenu_id))
    THEN {HTTPException(422, "One or more wrong types id", D)}
    ELSE IF raise_if_not_exist(check_menu_by_id(D, menu_id))
    THEN {HTTPException(404, "Menu not found", D)}
    ELSE IF check_submenu_by_id(D, submenu_id) = {}
    THEN {Uncaught("UnmappedInstanceError", D)}
    ELSE {Deleted("The submenu has been deleted",
                  CascadeSubMenu(D, pg_uuid(submenu_id)))}

delete_dish_by_id(D, menu_id, submenu_id, dish_id) ==
    IF ~ (is_valid_uuid(menu_id) /\ is_valid_uuid(submenu_id)
            /\ is_valid_uuid(dish_id))
    THEN {HTTPException(422, "One or more wrong types id", D)}
    ELSE IF raise_if_not_exist(check_menu_by_id(D, menu_id))
    THEN {HTTPException(404, "Menu not found", D)}
    ELSE IF raise_if_not_exist(check_submenu_by_id(D, submenu_id))
    THEN {HTTPException(404, "Submenu not found", D)}
    ELSE IF raise_if_not_exist({d \in D.dishes : d.id = pg_uuid(dish_id)})
    THEN {HTTPException(404, "Dish not found", D)}
    ELSE {Deleted("The dish has been deleted",
                  [D EXCEPT !.dishes = {d \in @ : d.id # pg_uuid(dish_id)}])}

\* ---- update
\* the commit of a changed row: the unique title, the primary key, and the
\* foreign keys of the children of a row whose id changes (no ON UPDATE action)
UpdateRejected(table, old, new, children) ==
    \/ \E r \in table \ {old} : r.title = new.title \/ r.id = new.id
    \/ new.id # old.id /\ children # {}

update_menu(D, menu_id, menu) ==
    IF BadCast({menu_id})
    THEN {Uncaught("DataError", D)}
    ELSE LET db_menu == check_menu_by_id(D, menu_id)
         IN  \* raise_if_not_exist(menu, ...) looks at the payload, never empty
             IF db_menu = {}
             THEN {Uncaught("AttributeError", D)}
             ELSE UNION {
                 LET new == MenuRow(SetId(old, menu), menu.title, menu.description)
                     D2 == [D EXCEPT !.menus = (@ \ {old}) \cup {new}]
                 IN  IF UpdateRejected(D.menus, old, new,
                                       {s \in D.submenus : s.menu_id = old.id})
                     THEN {Uncaught("IntegrityError", D)}
                     ELSE Respond(200, get_menu_by_id(D2, new.id), D2)
                 : old \in db_menu}

update_submenu(D, menu_id, submenu_id, submenu) ==
    IF BadCast({menu_id})
    THEN {Uncaught("DataError", D)}
    ELSE IF raise_if_not_exist(check_menu_by_id(D, menu_id))
    THEN {HTTPException(404, "Menu not found", D)}
    ELSE IF BadCast({submenu_id})
    THEN {Uncaught("DataError", D)}
    ELSE IF raise_if_not_exist(check_submenu_by_id(D, submenu_id))
    THEN {HTTPException(404, "Submenu not found", D)}
    ELSE UNION {
        LET new == SubMenuRow(SetId(old, submenu), submenu.title,
                              submenu.description, old.menu_id)
            D2 == [D EXCEPT !.submenus = (@ \ {old}) \cup {new}]
        IN  IF UpdateRejected(D.submenus, old, new,
                              {d \in D.dishes : d.submenu_id = old.id})
            THEN {Uncaught("IntegrityError", D)}
            ELSE Respond(200, get_submenu_by_id(D2, pg_uuid(menu_id), new.id), D2)
        : old \in check_submenu_by_id(D, submenu_id)}

update_dish(D, menu_id, submenu_id, dish_id, dish) ==
    IF BadCast({menu_id})
    THEN {Uncaught("DataError", D)}
    ELSE IF raise_if_not_exist(check_menu_by_id(D, menu_id))
    THEN {HTTPException(404, "Menu not found", D)}
    ELSE IF BadCast({submenu_id})
    THEN {Uncaught("DataError", D)}
    ELSE IF raise_if_not_exist(check_submenu_by_id(D, submenu_id))
    THEN {HTTPException(404, "Submenu not found", D)}
    ELSE IF BadCast({dish_id})
    THEN {Uncaught("DataError", D)}
    ELSE IF raise_if_not_exist({d \in D.dishes : d.id = pg_uuid(dish_id)})
    THEN {HTTPException(404, "Submenu not found", D)}
    ELSE UNION {
        LET new == DishRow(SetId(old, dish), dish.title, dish.description,
                           Numeric_10_2(dish.price), old.submenu_id)
            D2 == [D EXCEPT !.dishes = (@ \ {old}) \cup {new}]
            rows == get_dish_by_id(D2, pg_uuid(submenu_id), pg_uuid(menu_id), new.id)
        IN  IF UpdateRejected(D.dishes, old, new, {})
            THEN {Uncaught("IntegrityError", D)}
            ELSE Respond(200, {DishProjection(d) : d \in rows}, D2)
        : old \in {d \in D.dishes : d.id = pg_uuid(dish_id)}}

\* ------------------------------------------------------------ the requests
MenuBase == [id : {Unset} \cup Uuids, title : Titles, description : Descriptions]

DishCreate ==
    [id : {Unset} \cup Uuids, title : Titles, description : Descriptions,
     price : PriceInputs]

NoResponse == [op |-> "none", status |-> 0, detail |-> "", body |-> {}, rowcount |-> 0]

RowCount(D) == Cardinality(D.menus) + Cardinality(D.submenus) + Cardinality(D.dishes)

\* the handler ends: its response goes out and its commit is in the tables;
\* rowcount is the number of rows the commit removed (-1 for a row inserted)
Send(op, o) ==
    /\ resp' = [op |-> op, status |-> o.status, detail |-> o.detail, body |-> o.body,
                rowcount |-> RowCount(db) - RowCount(o.db)]
    /\ menus' = o.db.menus
    /\ submenus' = o.db.submenus
    /\ dishes' = o.db.dishes

Init ==
    /\ menus = {}
    /\ submenus = {}
    /\ dishes = {}
    /\ inflight = EmptyBag
    /\ resp = NoResponse

GetMenus ==
    /\ \E o \in route_get_menus(db) : Send("get_menus", o)
    /\ UNCHANGED inflight

GetMenuById ==
    /\ \E menu_id \in PathIds :
        \E o \in route_get_menu_by_id(db, menu_id) : Send("get_menu_by_id", o)
    /\ UNCHANGED inflight

GetSubmenus ==
    /\ \E menu_id \in PathIds :
        \E o \in route_get_submenus(db, menu_id) : Send("get_submenus", o)
    /\ UNCHANGED inflight

GetSubmenuById ==
    /\ \E menu_id \in PathIds, submenu_id \in PathIds :
        \E o \in route_get_submenu_by_id(db, menu_id, submenu_id) :
            Send("get_submenu_by_id", o)
    /\ UNCHANGED inflight

GetDishes ==
    /\ \E menu_id \in PathIds, submenu_id \in PathIds :
        \E o \in route_get_dishes(db, menu_id, submenu_id) : Send("get_dishes", o)
    /\ UNCHANGED inflight

GetDishById ==
    /\ \E menu_id \in PathIds, submenu_id \in PathIds, dish_id \in PathIds :
        \E o \in route_get_dish_by_id(db, menu_id, submenu_id, dish_id) :
            Send("get_dish_by_id", o)
    /\ UNCHANGED inflight

CreateMenu ==
    /\ \E menu \in MenuBase :
        \E o \in route_create_menu(db, menu) : Send("create_menu", o)
    /\ UNCHANGED inflight

CreateSubmenu ==
    /\ \E menu_id \in PathIds, submenu \in MenuBase :
        \E o \in route_create_submenu(db, menu_id, submenu) :
            Send("create_submenu", o)
    /\ UNCHANGED inflight

CreateDish ==
    /\ \E menu_id \in PathIds, submenu_id \in PathIds, dish \in DishCreate :
        \E o \in route_create_dish(db, menu_id, submenu_id, dish) :
            Send("create_dish", o)
    /\ UNCHANGED inflight

UpdateMenu ==
    /\ \E menu_id \in PathIds, menu \in MenuBase :
        \E o \in update_menu(db, menu_id, menu) : Send("update_menu", o)
    /\ UNCHANGED inflight

UpdateSubmenu ==
    /\ \E menu_id \in PathIds, submenu_id \in PathIds, submenu \in MenuBase :
        \E o \in update_submenu(db, menu_id, submenu_id, submenu) :
            Send("update_submenu", o)
    /\ UNCHANGED inflight

UpdateDish ==
    /\ \E menu_id \in PathIds, submenu_id \in PathIds, dish_id \in PathIds,
          dish \in DishCreate :
        \E o \in update_dish(db, menu_id, submenu_id, dish_id, dish) :
            Send("update_dish", o)
    /\ UNCHANGED inflight

DeleteMenu ==
    /\ \E menu_id \in PathIds :
        \E o \in delete_menu_by_id(db, menu_id) : Send("delete_menu_by_id", o)
    /\ UNCHANGED inflight

DeleteSubmenu ==
    /\ \E menu_id \in PathIds, submenu_id \in PathIds :
        \E o \in delete_submenu_by_id(db, menu_id, submenu_id) :
            Send("delete_submenu_by_id", o)
    /\ UNCHANGED inflight

DeleteDish ==
    /\ \E menu_id \in PathIds, submenu_id \in PathIds, dish_id \in PathIds :
        \E o \in delete_dish_by_id(db, menu_id, submenu_id, dish_id) :
            Send("delete_dish_by_id", o)
    /\ UNCHANGED inflight

Next ==
    \/ GetMenus \/ GetMenuById \/ GetSubmenus \/ GetSubmenuById
    \/ GetDishes \/ GetDishById
    \/ CreateMenu \/ CreateSubmenu \/ CreateDish
    \/ UpdateMenu \/ UpdateSubmenu \/ UpdateDish
    \/ DeleteMenu \/ DeleteSubmenu \/ DeleteDish

Spec == Init /\ [][Next]_vars

\* ------------------------------------------- requests served concurrently
\* A create request runs the route handler's checks in one statement each and
\* commits its insert later; requests of other clients commit in between.  A
\* request in flight is one that passed the checks and has not committed.
WellFormedIds == {str(u) : u \in Uuids}

\* bodies that leave the id to the server
NoIdMenuBase == {menu \in MenuBase : menu.id = Unset}

NoIdDishCreate == {dish \in DishCreate : dish.id = Unset}

InFlight(op, menu_id, submenu_id, payload) ==
    [op |-> op, menu_id |-> menu_id, submenu_id |-> submenu_id, payload |-> payload]

Begin(request) ==
    /\ BagCardinality(inflight) < MaxInFlight
    /\ inflight' = inflight (+) SetToBag({request})
    /\ UNCHANGED <<menus, submenus, dishes, resp>>

End(request) == inflight' = inflight (-) SetToBag({request})

BeginCreateMenu ==
    \E menu \in NoIdMenuBase :
        /\ precheck_create_menu(db, menu) = {}
        /\ Begin(InFlight("create_menu", Junk, Junk, menu))

BeginCreateSubmenu ==
    \E menu_id \in WellFormedIds, submenu \in NoIdMenuBase :
        /\ precheck_create_submenu(db, menu_id, submenu) = {}
        /\ Begin(InFlight("create_submenu", menu_id, Junk, submenu))

BeginCreateDish ==
    \E menu_id \in WellFormedIds, submenu_id \in WellFormedIds, dish \in NoIdDishCreate :
        /\ precheck_create_dish(db, menu_id, submenu_id, dish) = {}
        /\ Begin(InFlight("create_dish", menu_id, submenu_id, dish))

\* a create request whose two steps run with no other commit in between
ConcCreate ==
    /\ \/ \E menu \in NoIdMenuBase :
            \E o \in route_create_menu(db, menu) : Send("create_menu", o)
       \/ \E menu_id \in WellFormedIds, submenu \in NoIdMenuBase :
            \E o \in route_create_submenu(db, menu_id, submenu) :
                Send("create_submenu", o)
       \/ \E menu_id \in WellFormedIds, submenu_id \in WellFormedIds,
             dish \in NoIdDishCreate :
            \E o \in route_create_dish(db, menu_id, submenu_id, dish) :
                Send("create_dish", o)
    /\ UNCHANGED inflight

CommitOutcomes(r) ==
    CASE r.op = "create_menu" -> create_menu(db, r.payload)
      [] r.op = "create_submenu" -> create_submenu(db, r.menu_id, r.payload)
      [] r.op = "create_dish" -> create_dish(db, r.menu_id, r.submenu_id, r.payload)

CommitCreate ==
    \E r \in BagToSet(inflight) :
        /\ \E o \in CommitOutcomes(r) : Send(r.op, o)
        /\ End(r)

ConcUpdate ==
    /\ \/ \E menu_id \in WellFormedIds, menu \in NoIdMenuBase :
            \E o \in update_menu(db, menu_id, menu) : Send("update_menu", o)
       \/ \E menu_id \in WellFormedIds, submenu_id \in WellFormedIds,
             submenu \in NoIdMenuBase :
            \E o \in update_submenu(db, menu_id, submenu_id, submenu) :
                Send("update_submenu", o)
       \/ \E menu_id \in WellFormedIds, submenu_id \in WellFormedIds,
             dish_id \in WellFormedIds, dish \in NoIdDishCreate :
            \E o \in update_dish(db, menu_id, submenu_id, dish_id, dish) :
                Send("update_dish", o)
    /\ UNCHANGED inflight

ConcDelete ==
    /\ \/ \E menu_id \in WellFormedIds :
            \E o \in delete_menu_by_id(db, menu_id) : Send("delete_menu_by_id", o)
       \/ \E menu_id \in WellFormedIds, submenu_id \in WellFormedIds :
            \E o \in delete_submenu_by_id(db, menu_id, submenu_id) :
                Send("delete_submenu_by_id", o)
       \/ \E menu_id \in WellFormedIds, submenu_id \in WellFormedIds,
             dish_id \in WellFormedIds :
            \E o \in delete_dish_by_id(db, menu_id, submenu_id, dish_id) :
                Send("delete_dish_by_id", o)
    /\ UNCHANGED inflight

NextConc ==
    \/ BeginCreateMenu \/ BeginCreateSubmenu \/ BeginCreateDish
    \/ CommitCreate \/ ConcCreate
    \/ ConcUpdate \/ ConcDelete

SpecConc == Init /\ [][NextConc]_vars

\* ------------------------------------------------ the prices of the dishes
\* Requests on the dishes of one submenu, with prices of three fractional
\* digits that round up, round down and sit on the half, and prices of two.
PriceCases == {7777, 115455, 7774, 7775, 7770, 115450}

PricedDish ==
    [id : {Unset} \cup Uuids, title : Titles, description : Descriptions,
     price : PriceCases]

InitPrice ==
    /\ menus = {MenuRow(1, 1, "about")}
    /\ submenus = {SubMenuRow(1, 1, "about", 1)}
    /\ dishes = {}
    /\ inflight = EmptyBag
    /\ resp = NoResponse

CreatePricedDish ==
    /\ \E dish \in PricedDish :
        \E o \in route_create_dish(db, str(1), str(1), dish) : Send("create_dish", o)
    /\ UNCHANGED inflight

UpdatePricedDish ==
    /\ \E dish_id \in WellFormedIds, dish \in PricedDish :
        \E o \in update_dish(db, str(1), str(1), dish_id, dish) :
            Send("update_dish", o)
    /\ UNCHANGED inflight

GetPricedDish ==
    /\ \E dish_id \in WellFormedIds :
        \E o \in route_get_dish_by_id(db, str(1), str(1), dish_id) :
            Send("get_dish_by_id", o)
    /\ UNCHANGED inflight

DeletePricedDish ==
    /\ \E dish_id \in WellFormedIds :
        \E o \in delete_dish_by_id(db, str(1), str(1), dish_id) :
            Send("delete_dish_by_id", o)
    /\ UNCHANGED inflight

NextPrice ==
    \/ CreatePricedDish \/ UpdatePricedDish \/ GetPricedDish \/ DeletePricedDish

SpecPrice == InitPrice /\ [][NextPrice]_vars

\* ------------------------------------------------------------------ claims
\* the dishes under a menu: those whose submenu belongs to it
DishesOfMenu(menu_id) ==
    {d \in dishes : \E s \in submenus : s.id = d.submenu_id /\ s.menu_id = menu_id}

SubMenusOfMenu(menu_id) == {s \in submenus : s.menu_id = menu_id}

MenuRead == resp.op \in {"get_menu_by_id", "get_menus"} /\ resp.status = 200

\* C1: the dishes_count that getMenu and listMenus report for a menu is the
\* number of dishes under all the submenus of that menu.
C1_DishesCountIsTotal ==
    MenuRead =>
        \A r \in resp.body : r.dishes_count = Cardinality(DishesOfMenu(r.id))

\* C2: the submenus_count that getMenu and listMenus report for a menu is the
\* number of submenus whose menu_id is that menu, whatever dishes they hold.
C2_SubmenusCountIsTotal ==
    MenuRead =>
        \A r \in resp.body : r.submenus_count = Cardinality(SubMenusOfMenu(r.id))

\* a path identifier the store can look up: the text of some UUID
Readable == {text \in PathIds : pg_uuid(text) # DataError}

\* what a read of submenu or dish id u answers once the row is gone, on the
\* tables D: not found for the single reads, no row in the lists
GoneSubmenu(D, u) ==
    \A menu_id \in Readable :
        /\ \A o \in route_get_submenu_by_id(D, menu_id, str(u)) :
              o.status = 404 /\ o.detail = "submenu not found"
        /\ \A o \in route_get_submenus(D, menu_id) :
              o.status = 200 /\ \A r \in o.body : r.id # u
        /\ \A o \in route_get_dishes(D, menu_id, str(u)) :
              o.status = 200 /\ o.body = {}

GoneDish(D, u) ==
    \A menu_id \in Readable, submenu_id \in Readable :
        /\ \A o \in route_get_dish_by_id(D, menu_id, submenu_id, str(u)) :
              o.status = 404 /\ o.detail = "dish not found"
        /\ \A o \in route_get_dishes(D, menu_id, submenu_id) :
              o.status = 200 /\ \A r \in o.body : r.id # u

DeleteMenuStep(menu_id) ==
    \E o \in delete_menu_by_id(db, menu_id) :
        o.status = 200 /\ Send("delete_menu_by_id", o)

DeleteSubmenuStep(menu_id, submenu_id) ==
    \E o \in delete_submenu_by_id(db, menu_id, submenu_id) :
        o.status = 200 /\ Send("delete_submenu_by_id", o)

C3_MenuSubtreeGone(u) ==
    LET subs == {s \in submenus : s.menu_id = u}
        under == {d \in dishes : \E s \in subs : d.submenu_id = s.id}
    IN  /\ menus' = {m \in menus : m.id # u}
        /\ submenus' = submenus \ subs
        /\ dishes' = dishes \ under
        /\ \A s \in subs : GoneSubmenu(db', s.id)
        /\ \A d \in under : GoneDish(db', d.id)

C3_SubmenuSubtreeGone(u) ==
    LET under == {d \in dishes : d.submenu_id = u}
    IN  /\ menus' = menus
        /\ submenus' = {s \in submenus : s.id # u}
        /\ dishes' = dishes \ under
        /\ GoneSubmenu(db', u)
        /\ \A d \in under : GoneDish(db', d.id)

\* C3: a successful delete of a menu removes, in the one step, the menu, its
\* submenus and their dishes and nothing else, a successful delete of a
\* submenu removes the submenu and its dishes and nothing else, and a read of
\* a removed submenu or dish then answers not found or an empty list.
C3_DeleteCascades ==
    [][ /\ resp'.op = "delete_menu_by_id" /\ resp'.status = 200 =>
            \A menu_id \in PathIds :
                DeleteMenuStep(menu_id) => C3_MenuSubtreeGone(pg_uuid(menu_id))
        /\ resp'.op = "delete_submenu_by_id" /\ resp'.status = 200 =>
            \A menu_id \in PathIds, submenu_id \in PathIds :
                DeleteSubmenuStep(menu_id, submenu_id)
                    => C3_SubmenuSubtreeGone(pg_uuid(submenu_id)) ]_vars

\* a menu was deleted together with a submenu and a dish (three rows) while
\* another menu stays
C3_Witness ==
    /\ resp.op = "delete_menu_by_id"
    /\ resp.status = 200
    /\ resp.rowcount >= 3
    /\ menus # {}

\* C4: no two menus, no two submenus and no two dishes share a title.
C4_TitlesUnique ==
    /\ \A a \in menus, b \in menus : a.title = b.title => a = b
    /\ \A a \in submenus, b \in submenus : a.title = b.title => a = b
    /\ \A a \in dishes, b \in dishes : a.title = b.title => a = b

\* the insert of a menu that passed the title check while another request
\* took its title was refused at commit; each table is full of titles
C4_Witness ==
    /\ resp.op = "create_menu"
    /\ resp.detail = "IntegrityError"
    /\ Cardinality(menus) = NumTitles
    /\ Cardinality(dishes) = NumTitles

Registered(table, title) == \E r \in table : r.title = title

Exists(table, text) == \E r \in table : text = str(r.id)

\* C5 as stated: a create whose title is on a row of its table answers 400
\* "Title of <entity> already registered" and leaves the tables as they were,
\* for a menu, a submenu and a dish (the parents named in the path exist).
C5_TitlePrecheckAllThree ==
    /\ \A menu \in MenuBase :
        Registered(menus, menu.title) =>
            route_create_menu(db, menu)
                = {HTTPException(400, "Title of Menu already registered", db)}
    /\ \A menu_id \in PathIds, submenu \in MenuBase :
        Exists(menus, menu_id) /\ Registered(submenus, submenu.title) =>
            route_create_submenu(db, menu_id, submenu)
                = {HTTPException(400, "Title of Submenu already registered", db)}
    /\ \A menu_id \in PathIds, submenu_id \in PathIds, dish \in DishCreate :
        Exists(menus, menu_id) /\ Exists(submenus, submenu_id)
            /\ Registered(dishes, dish.title) =>
            route_create_dish(db, menu_id, submenu_id, dish)
                = {HTTPException(400, "Title of Dish already registered", db)}

\* C5 amended: a menu and a submenu are refused by the title check with 400
\* "Title of <entity> already registered"; a dish has no title check and is
\* refused at commit with 500 "A duplicate record already exists"; the tables
\* stay as they were in all three.
C5_TitlePrecheckMenuSubmenu ==
    /\ \A menu \in MenuBase :
        Registered(menus, menu.title) =>
            route_create_menu(db, menu)
                = {HTTPException(400, "Title of Menu already registered", db)}
    /\ \A menu_id \in PathIds, submenu \in MenuBase :
        Exists(menus, menu_id) /\ Registered(submenus, submenu.title) =>
            route_create_submenu(db, menu_id, submenu)
                = {HTTPException(400, "Title of Submenu already registered", db)}
    /\ \A menu_id \in PathIds, submenu_id \in PathIds, dish \in DishCreate :
        Exists(menus, menu_id) /\ Exists(submenus, submenu_id)
            /\ Registered(dishes, dish.title) =>
            route_create_dish(db, menu_id, submenu_id, dish)
                = {HTTPException(500, "A duplicate record already exists", db)}

\* a submenu was refused for its title while both titles are on submenus
C5_Witness ==
    /\ resp.op = "create_submenu"
    /\ resp.status = 400
    /\ resp.detail = "Title of Submenu already registered"
    /\ resp.rowcount = 0
    /\ Cardinality(submenus) = NumTitles

\* the step is the handler's: one of its outcomes goes out
Step(op, outcomes) == \E o \in outcomes : Send(op, o)

StoreUnchanged == UNCHANGED <<menus, submenus, dishes>>

Answers(status, detail) ==
    resp'.status = status /\ resp'.detail = detail /\ StoreUnchanged

TableOf(r) ==
    CASE r.op = "create_menu" -> menus
      [] r.op = "create_submenu" -> submenus
      [] r.op = "create_dish" -> dishes

\* C6: when a create in flight commits after another request took its title,
\* no row is inserted and the answer is 500 "A duplicate record already
\* exists", for a menu, a submenu and a dish.
C6_RaceLoserGetsDuplicateRecord ==
    [][ \A r \in BagToSet(inflight) :
            Registered(TableOf(r), r.payload.title)
                /\ inflight' = inflight (-) SetToBag({r})
            => Answers(500, "A duplicate record already exists") ]_vars

\* C7: an update of a row that does not exist (its ancestors in the path do)
\* answers 404 with the message of its entity type and changes nothing.
C7_UpdateMissingIsNotFound ==
    [][ /\ resp'.op = "update_menu" =>
            \A menu_id \in WellFormedIds, menu \in MenuBase :
                ~ Exists(menus, menu_id)
                    /\ Step("update_menu", update_menu(db, menu_id, menu))
                => Answers(404, "Menu not found")
        /\ resp'.op = "update_submenu" =>
            \A menu_id \in WellFormedIds, submenu_id \in WellFormedIds,
               submenu \in MenuBase :
                Exists(menus, menu_id) /\ ~ Exists(submenus, submenu_id)
                    /\ Step("update_submenu",
                            update_submenu(db, menu_id, submenu_id, submenu))
                => Answers(404, "Submenu not found")
        /\ resp'.op = "update_dish" =>
            \A menu_id \in WellFormedIds, submenu_id \in WellFormedIds,
               dish_id \in WellFormedIds, dish \in DishCreate :
                Exists(menus, menu_id) /\ Exists(submenus, submenu_id)
                    /\ ~ Exists(dishes, dish_id)
                    /\ Step("update_dish",
                            update_dish(db, menu_id, submenu_id, dish_id, dish))
                => Answers(404, "Dish not found") ]_vars

\* the message of the first level of a delete's path that does not exist
FirstMissing(menu_id, submenu_id, dish_id) ==
    IF ~ Exists(menus, menu_id) THEN "Menu not found"
    ELSE IF submenu_id # Junk /\ ~ Exists(submenus, submenu_id) THEN "Submenu not found"
    ELSE IF dish_id # Junk /\ ~ Exists(dishes, dish_id) THEN "Dish not found"
    ELSE "none"

\* C8: a delete whose identifiers are well formed answers 404 with the
\* message of the first level of its path that does not exist, menu first,
\* then submenu, then dish, and deletes nothing.
C8_DeleteFirstMissingLevel ==
    [][ /\ resp'.op = "delete_menu_by_id" =>
            \A menu_id \in WellFormedIds :
                FirstMissing(menu_id, Junk, Junk) # "none"
                    /\ Step("delete_menu_by_id", delete_menu_by_id(db, menu_id))
                => Answers(404, FirstMissing(menu_id, Junk, Junk))
        /\ resp'.op = "delete_submenu_by_id" =>
            \A menu_id \in WellFormedIds, submenu_id \in WellFormedIds :
                FirstMissing(menu_id, submenu_id, Junk) # "none"
                    /\ Step("delete_submenu_by_id",
                            delete_submenu_by_id(db, menu_id, submenu_id))
                => Answers(404, FirstMissing(menu_id, submenu_id, Junk))
        /\ resp'.op = "delete_dish_by_id" =>
            \A menu_id \in WellFormedIds, submenu_id \in WellFormedIds,
               dish_id \in WellFormedIds :
                FirstMissing(menu_id, submenu_id, dish_id) # "none"
                    /\ Step("delete_dish_by_id",
                            delete_dish_by_id(db, menu_id, submenu_id, dish_id))
                => Answers(404, FirstMissing(menu_id, submenu_id, dish_id)) ]_vars

Malformed == PathIds \ WellFormedIds

\* C9: a delete with a malformed identifier anywhere in its path answers 422,
\* "Wrong id type" for a menu and "One or more wrong types id" for a submenu
\* and a dish, whatever rows exist, and leaves the tables as they were.
C9_DeleteMalformedIs422 ==
    /\ \A menu_id \in Malformed :
        delete_menu_by_id(db, menu_id) = {HTTPException(422, "Wrong id type", db)}
    /\ \A menu_id \in PathIds, submenu_id \in PathIds :
        {menu_id, submenu_id} \cap Malformed # {} =>
            delete_submenu_by_id(db, menu_id, submenu_id)
                = {HTTPException(422, "One or more wrong types id", db)}
    /\ \A menu_id \in PathIds, submenu_id \in PathIds, dish_id \in PathIds :
        {menu_id, submenu_id, dish_id} \cap Malformed # {} =>
            delete_dish_by_id(db, menu_id, submenu_id, dish_id)
                = {HTTPException(422, "One or more wrong types id", db)}

\* a delete was refused for its identifier while menu 1, which the upper-case
\* text names, a submenu and a dish exist
C9_Witness ==
    /\ resp.op = "delete_dish_by_id"
    /\ resp.status = 422
    /\ resp.detail = "One or more wrong types id"
    /\ \E m \in menus : m.id = 1
    /\ submenus # {}
    /\ dishes # {}

\* C10: every operation that takes path identifiers answers 422 and leaves
\* the tables as they were when one of them is malformed.
C10_MalformedIs422Everywhere ==
    [][ \A menu_id \in PathIds, submenu_id \in PathIds, dish_id \in PathIds :
        /\ menu_id \in Malformed =>
            /\ Step("get_menu_by_id", route_get_menu_by_id(db, menu_id))
                => resp'.status = 422 /\ StoreUnchanged
            /\ Step("get_submenus", route_get_submenus(db, menu_id))
                => resp'.status = 422 /\ StoreUnchanged
            /\ Step("delete_menu_by_id", delete_menu_by_id(db, menu_id))
                => resp'.status = 422 /\ StoreUnchanged
            /\ \A menu \in MenuBase :
                /\ Step("update_menu", update_menu(db, menu_id, menu))
                    => resp'.status = 422 /\ StoreUnchanged
                /\ Step("create_submenu", route_create_submenu(db, menu_id, menu))
                    => resp'.status = 422 /\ StoreUnchanged
        /\ {menu_id, submenu_id} \cap Malformed # {} =>
            /\ Step("get_submenu_by_id",
                    route_get_submenu_by_id(db, menu_id, submenu_id))
                => resp'.status = 422 /\ StoreUnchanged
            /\ Step("get_dishes", route_get_dishes(db, menu_id, submenu_id))
                => resp'.status = 422 /\ StoreUnchanged
            /\ Step("delete_submenu_by_id",
                    delete_submenu_by_id(db, menu_id, submenu_id))
                => resp'.status = 422 /\ StoreUnchanged
            /\ \A submenu \in MenuBase :
                Step("update_submenu",
                     update_submenu(db, menu_id, submenu_id, submenu))
                    => resp'.status = 422 /\ StoreUnchanged
            /\ \A dish \in DishCreate :
                Step("create_dish", route_create_dish(db, menu_id, submenu_id, dish))
                    => resp'.status = 422 /\ StoreUnchanged
        /\ {menu_id, submenu_id, dish_id} \cap Malformed # {} =>
            /\ Step("get_dish_by_id",
                    route_get_dish_by_id(db, menu_id, submenu_id, dish_id))
                => resp'.status = 422 /\ StoreUnchanged
            /\ Step("delete_dish_by_id",
                    delete_dish_by_id(db, menu_id, submenu_id, dish_id))
                => resp'.status = 422 /\ StoreUnchanged
            /\ \A dish \in DishCreate :
                Step("update_dish",
                     update_dish(db, menu_id, submenu_id, dish_id, dish))
                    => resp'.status = 422 /\ StoreUnchanged ]_vars

\* C11: a create of a submenu under a well-formed menu id that is not
\* registered, and of a dish under a well-formed menu id or (the menu being
\* registered) submenu id that is not registered, answers 400 "ID of Menu not
\* registered" / "ID of Submenu not registered" and inserts no row.
C11_ParentNotRegisteredIs400 ==
    /\ \A menu_id \in WellFormedIds, submenu \in MenuBase :
        ~ Exists(menus, menu_id) =>
            route_create_submenu(db, menu_id, submenu)
                = {HTTPException(400, "ID of Menu not registered", db)}
    /\ \A menu_id \in WellFormedIds, submenu_id \in PathIds, dish \in DishCreate :
        ~ Exists(menus, menu_id) =>
            route_create_dish(db, menu_id, submenu_id, dish)
                = {HTTPException(400, "ID of Menu not registered", db)}
    /\ \A menu_id \in WellFormedIds, submenu_id \in WellFormedIds,
          dish \in DishCreate :
        Exists(menus, menu_id) /\ ~ Exists(submenus, submenu_id) =>
            route_create_dish(db, menu_id, submenu_id, dish)
                = {HTTPException(400, "ID of Submenu not registered", db)}

\* a dish was refused for its submenu id while a menu and another submenu exist
C11_Witness ==
    /\ resp.op = "create_dish"
    /\ resp.status = 400
    /\ resp.detail = "ID of Submenu not registered"
    /\ resp.rowcount = 0
    /\ menus # {}
    /\ submenus # {}

\* the row an update leaves: the fields of the payload, the id of the payload
\* when it carries one and the row's own otherwise
C12_Id(old, payload) == IF payload.id = Unset THEN old.id ELSE payload.id

C12_OnlyRow(table, after, path_id, new(_)) ==
    \/ after = table
    \/ \E old \in table :
        /\ old.id = UUID(path_id)
        /\ after = (table \ {old}) \cup {new(old)}

\* C12: an update leaves every row but the one its path addresses as it was,
\* and leaves that row with the title, description (and price) of the payload,
\* the id of the payload when the payload has one and its own id otherwise,
\* and its own parent reference.
C12_UpdateChangesOnlyPayloadFields ==
    /\ \A menu_id \in PathIds, menu \in MenuBase :
        \A o \in update_menu(db, menu_id, menu) :
            LET new(old) == [id |-> C12_Id(old, menu), title |-> menu.title,
                             description |-> menu.description]
            IN  /\ C12_OnlyRow(menus, o.db.menus, menu_id, new)
                /\ o.db.submenus = submenus
                /\ o.db.dishes = dishes
    /\ \A menu_id \in PathIds, submenu_id \in PathIds, submenu \in MenuBase :
        \A o \in update_submenu(db, menu_id, submenu_id, submenu) :
            LET new(old) == [id |-> C12_Id(old, submenu), title |-> submenu.title,
                             description |-> submenu.description,
                             menu_id |-> old.menu_id]
            IN  /\ C12_OnlyRow(submenus, o.db.submenus, submenu_id, new)
                /\ o.db.menus = menus
                /\ o.db.dishes = dishes
    /\ \A menu_id \in PathIds, submenu_id \in PathIds, dish_id \in PathIds,
          dish \in DishCreate :
        \A o \in update_dish(db, menu_id, submenu_id, dish_id, dish) :
            LET new(old) == [id |-> C12_Id(old, dish), title |-> dish.title,
                             description |-> dish.description,
                             price |-> Numeric_10_2(dish.price),
                             submenu_id |-> old.submenu_id]
            IN  /\ C12_OnlyRow(dishes, o.db.dishes, dish_id, new)
                /\ o.db.menus = menus
                /\ o.db.submenus = submenus

\* a submenu was updated to the second title while it holds a dish
C12_Witness ==
    /\ resp.op = "update_submenu"
    /\ resp.status = 200
    /\ \E r \in resp.body : r.title = 2 /\ r.dishes_count = 1
    /\ Cardinality(submenus) = 1

\* C13: a create, update or delete that answers with an error leaves the
\* three tables as they were.
C13_FailureLeavesStoreUnchanged ==
    [][ resp'.status >= 400 => StoreUnchanged ]_vars

\* C14: every submenu row references a menu that exists and every dish row a
\* submenu that exists, also when a create of a child commits after another
\* request deleted its parent.
C14_NoOrphans ==
    /\ \A s \in submenus : \E m \in menus : m.id = s.menu_id
    /\ \A d \in dishes : \E s \in submenus : s.id = d.submenu_id

\* the insert of a submenu that passed the check of its menu was refused at
\* commit: no menu is left, so no submenu holds its title
C14_Witness ==
    /\ resp.op = "create_submenu"
    /\ resp.detail = "IntegrityError"
    /\ menus = {}

\* the answer of a successful create of row on the tables after: the
\* projection of the row, which the read of the row and the list then give
C15_Created(table, after, row, payload) ==
    /\ row \notin table
    /\ after = table \cup {row}
    /\ row.id \notin {r.id : r \in table}
    /\ payload.id # Unset => row.id = payload.id
    /\ row.title = payload.title
    /\ row.description = payload.description

C15_ReadBack(o, single, list) ==
    /\ single = {Outcome(200, "", o.body, o.db)}
    /\ \A l \in list : l.status = 200 /\ o.body \subseteq l.body

\* C15: a create that answers 201 adds exactly one row, under the id of the
\* payload when it has one and under an id no row had otherwise, answers the
\* projection of that row with its counts at 0, and the read of the row on the
\* same path and the list of its level then give that projection.
C15_CreateThenRead ==
    /\ \A menu \in MenuBase :
        \A o \in route_create_menu(db, menu) : o.status = 201 =>
            \E row \in o.db.menus :
                /\ C15_Created(menus, o.db.menus, row, menu)
                /\ o.db.submenus = submenus /\ o.db.dishes = dishes
                /\ o.body = {[id |-> row.id, title |-> row.title,
                              description |-> row.description,
                              submenus_count |-> 0, dishes_count |-> 0]}
                /\ C15_ReadBack(o, route_get_menu_by_id(o.db, str(row.id)),
                                route_get_menus(o.db))
    /\ \A menu_id \in PathIds, submenu \in MenuBase :
        \A o \in route_create_submenu(db, menu_id, submenu) : o.status = 201 =>
            \E row \in o.db.submenus :
                /\ C15_Created(submenus, o.db.submenus, row, submenu)
                /\ o.db.menus = menus /\ o.db.dishes = dishes
                /\ str(row.menu_id) = menu_id
                /\ o.body = {[id |-> row.id, title |-> row.title,
                              description |-> row.description,
                              dishes_count |-> 0]}
                /\ C15_ReadBack(o,
                        route_get_submenu_by_id(o.db, menu_id, str(row.id)),
                        route_get_submenus(o.db, menu_id))
    /\ \A menu_id \in PathIds, submenu_id \in PathIds, dish \in DishCreate :
        \A o \in route_create_dish(db, menu_id, submenu_id, dish) : o.status = 201 =>
            \E row \in o.db.dishes :
                /\ C15_Created(dishes, o.db.dishes, row, dish)
                /\ o.db.menus = menus /\ o.db.submenus = submenus
                /\ str(row.submenu_id) = submenu_id
                /\ o.body = {[id |-> row.id, title |-> row.title,
                              description |-> row.description,
                              price |-> row.price]}
                /\ C15_ReadBack(o,
                        route_get_dish_by_id(o.db, menu_id, submenu_id, str(row.id)),
                        route_get_dishes(o.db, menu_id, submenu_id))

\* a second submenu was created beside one that holds a dish
C15_Witness ==
    /\ resp.op = "create_submenu"
    /\ resp.status = 201
    /\ resp.rowcount = -1
    /\ \E r \in resp.body : r.dishes_count = 0
    /\ Cardinality(submenus) = 2
    /\ dishes # {}

C16_LiveCount(r) == r.dishes_count = Cardinality({d \in dishes : d.submenu_id = r.id})

\* C16: the dishes_count that the read of a submenu and the list of the
\* submenus of a menu report is the number of dishes whose submenu_id is that
\* submenu, 0 when there is none.
C16_SubmenuDishesCount ==
    \A menu_id \in Readable :
        /\ \A o \in route_get_submenus(db, menu_id) :
            o.status = 200 /\ \A r \in o.body : C16_LiveCount(r)
        /\ \A submenu_id \in Readable :
            \A o \in route_get_submenu_by_id(db, menu_id, submenu_id) :
                o.status = 200 => \A r \in o.body : C16_LiveCount(r)

\* the list of the submenus of a menu showed one with a dish and one without
C16_Witness ==
    /\ resp.op = "get_submenus"
    /\ resp.status = 200
    /\ \E a \in resp.body, b \in resp.body :
        a.dishes_count = 1 /\ b.dishes_count = 0
    /\ Cardinality(dishes) = 1

\* C17: the list of the menus answers 200 with exactly one row for each menu
\* that exists and no row for any other id.
C17_ListMenusOnePerMenu ==
    \A o \in route_get_menus(db) :
        /\ o.status = 200
        /\ \A m \in menus : Cardinality({r \in o.body : r.id = m.id}) = 1
        /\ \A r \in o.body : \E m \in menus : m.id = r.id

\* q hundredths is p thousandths rounded to the nearest hundredth, the half up
C18_HalfUp(p, q) == 10 * q - 5 <= p /\ p < 10 * q + 5

\* the price answered for the price sent, stored as answered and read back
C18_Answer(o, dish) ==
    \A r \in o.body :
        /\ C18_HalfUp(dish.price, r.price)
        /\ dish.price = 7777 => r.price = 778
        /\ dish.price = 115455 => r.price = 11546
        /\ dish.price % 10 = 0 => 10 * r.price = dish.price
        /\ \E d \in o.db.dishes : d.id = r.id /\ d.price = r.price
        /\ route_get_dish_by_id(o.db, str(1), str(1), str(r.id))
              = {Outcome(200, "", {r}, o.db)}

\* C18: the price a create or an update of a dish stores and answers is the
\* price sent rounded to two fractional digits, the half up (7.777 gives 7.78,
\* 115.455 gives 115.46), and the price sent when it has two digits at most.
C18_PriceRoundedHalfUp ==
    \A dish \in PricedDish :
        /\ \A o \in route_create_dish(db, str(1), str(1), dish) :
            o.status = 201 => o.body # {} /\ C18_Answer(o, dish)
        /\ \A dish_id \in WellFormedIds :
            \A o \in update_dish(db, str(1), str(1), dish_id, dish) :
                o.status = 200 => o.body # {} /\ C18_Answer(o, dish)

\* a dish was updated to 115.455 and answered 115.46 beside a dish stored
\* at 7.77
C18_Witness ==
    /\ resp.op = "update_dish"
    /\ resp.status = 200
    /\ \E r \in resp.body : r.price = 11546
    /\ \E d \in dishes : d.price = 777

\* C19 as stated: a create of a submenu or a dish with a malformed identifier
\* anywhere in its path answers 422 "Wrong id type", whether or not the other
\* parent of the path exists.
C19_SyntaxBeforeExistence ==
    /\ \A menu_id \in Malformed, submenu \in MenuBase :
        route_create_submenu(db, menu_id, submenu)
            = {HTTPException(422, "Wrong id type", db)}
    /\ \A menu_id \in PathIds, submenu_id \in PathIds, dish \in DishCreate :
        {menu_id, submenu_id} \cap Malformed # {} =>
            route_create_dish(db, menu_id, submenu_id, dish)
                = {HTTPException(422, "Wrong id type", db)}

\* C19 amended: each parent identifier is validated before the lookup that
\* uses it, the menu first: a malformed menu_id answers 422 "Wrong id type"
\* whatever the submenu_id is; a malformed submenu_id answers 422 when the
\* menu_id is registered, and 400 "ID of Menu not registered" when the menu_id
\* is well formed and not registered; no row is inserted.
C19_SyntaxBeforeEachLookup ==
    /\ \A menu_id \in Malformed, submenu \in MenuBase :
        route_create_submenu(db, menu_id, submenu)
            = {HTTPException(422, "Wrong id type", db)}
    /\ \A menu_id \in Malformed, submenu_id \in PathIds, dish \in DishCreate :
        route_create_dish(db, menu_id, submenu_id, dish)
            = {HTTPException(422, "Wrong id type", db)}
    /\ \A menu_id \in WellFormedIds, submenu_id \in Malformed, dish \in DishCreate :
        route_create_dish(db, menu_id, submenu_id, dish)
            = {IF Exists(menus, menu_id)
               THEN HTTPException(422, "Wrong id type", db)
               ELSE HTTPException(400, "ID of Menu not registered", db)}

\* a dish was refused for an identifier while every menu id is registered
\* and submenus exist
C19_Witness ==
    /\ resp.op = "create_dish"
    /\ resp.status = 422
    /\ resp.detail = "Wrong id type"
    /\ resp.rowcount = 0
    /\ Cardinality(menus) = NumIds
    /\ submenus # {}

\* the submenu named in the path belongs to the menu named in the path
C20_SubmenuOfMenu(menu_id, submenu_id) ==
    \E s \in submenus : s.id = UUID(submenu_id) /\ s.menu_id = UUID(menu_id)

\* the dish named in the path belongs to the submenu named in the path
C20_DishOfSubmenu(submenu_id, dish_id) ==
    \E d \in dishes : d.id = UUID(dish_id) /\ d.submenu_id = UUID(submenu_id)

\* C20: a create of a dish, an update or delete of a submenu and an update or
\* delete of a dish leave the tables as they were unless the submenu of the
\* path belongs to the menu of the path and, for an update or delete of a
\* dish, the dish belongs to that submenu.
C20_OwnershipChainRequired ==
    \A menu_id \in PathIds, submenu_id \in PathIds :
        /\ ~ C20_SubmenuOfMenu(menu_id, submenu_id) =>
            /\ \A dish \in DishCreate :
                \A o \in route_create_dish(db, menu_id, submenu_id, dish) : o.db = db
            /\ \A submenu \in MenuBase :
                \A o \in update_submenu(db, menu_id, submenu_id, submenu) : o.db = db
            /\ \A o \in delete_submenu_by_id(db, menu_id, submenu_id) : o.db = db
        /\ \A dish_id \in PathIds :
            ~ (C20_SubmenuOfMenu(menu_id, submenu_id)
                    /\ C20_DishOfSubmenu(submenu_id, dish_id)) =>
                /\ \A dish \in DishCreate :
                    \A o \in update_dish(db, menu_id, submenu_id, dish_id, dish) :
                        o.db = db
                /\ \A o \in delete_dish_by_id(db, menu_id, submenu_id, dish_id) :
                    o.db = db

C21_Ids(table) == {r.id : r \in table}

\* the row of the path is still there and the table holds the ids it held
C21_SameIdentity(table, after, path_id) ==
    /\ \E r \in after : r.id = UUID(path_id)
    /\ C21_Ids(after) = C21_Ids(table)

\* C21: after an update that answers 200 the row is stored under the id of
\* the path, also when the payload carries another id, and each table holds
\* the ids it held before.
C21_UpdateKeepsIdentity ==
    /\ \A menu_id \in PathIds, menu \in MenuBase :
        \A o \in update_menu(db, menu_id, menu) : o.status = 200 =>
            C21_SameIdentity(menus, o.db.menus, menu_id)
    /\ \A menu_id \in PathIds, submenu_id \in PathIds, submenu \in MenuBase :
        \A o \in update_submenu(db, menu_id, submenu_id, submenu) : o.status = 200 =>
            C21_SameIdentity(submenus, o.db.submenus, submenu_id)
    /\ \A menu_id \in PathIds, submenu_id \in PathIds, dish_id \in PathIds,
          dish \in DishCreate :
        \A o \in update_dish(db, menu_id, submenu_id, dish_id, dish) : o.status = 200 =>
            C21_SameIdentity(dishes, o.db.dishes, dish_id)

====
